---- MODULE Spec2Model ----
(***************************************************************************)
(* secret_scan.py, the pre-commit secret scanner, and commander.py, the    *)
(* WhatsApp bot.  Text is modelled as a sequence of one-character strings, *)
(* so that the regular expressions and substring tests of the code are     *)
(* computed character by character.  Spec is the scanner; AutodlSpec,      *)
(* WebhookSpec and VoiceSpec are the bot: its autodl filters, one webhook  *)
(* request at a time, and the voice block under concurrent requests.       *)
(***************************************************************************)
EXTENDS Integers, Sequences, FiniteSets, TLC

--------------------------------------------------------------------------
(* Characters and the str / re primitives the scanner uses. *)

UpperCase == <<"A", "B", "C", "D", "E", "F", "G", "H", "I", "J", "K", "L", "M", "N", "O", "P", "Q", "R", "S", "T", "U", "V", "W", "X", "Y", "Z">>
LowerCase == <<"a", "b", "c", "d", "e", "f", "g", "h", "i", "j", "k", "l", "m", "n", "o", "p", "q", "r", "s", "t", "u", "v", "w", "x", "y", "z">>
Digits == {"0", "1", "2", "3", "4", "5", "6", "7", "8", "9"}

\* re.IGNORECASE compares characters after case folding
CaseFold == [c \in {UpperCase[i] : i \in DOMAIN UpperCase} |->
                LowerCase[CHOOSE i \in DOMAIN UpperCase : UpperCase[i] = c]]
Lower(c) == IF c \in DOMAIN CaseFold THEN CaseFold[c] ELSE c

\* \w
WordChars ==
    {UpperCase[i] : i \in DOMAIN UpperCase}
        \cup {LowerCase[i] : i \in DOMAIN LowerCase} \cup Digits \cup {"_"}
IsWord(c) == c \in WordChars

\* \s, and the characters str.strip() removes
IsSpace(c) == c \in {" ", "\t", "\n", "\r", "\f"}

\* the character class [:=]
IsSeparator(c) == c \in {":", "="}

\* the character class ["']
IsQuote(c) == c \in {"\"", "'"}

Max(S) == CHOOSE m \in S : \A n \in S : n <= m
Min(S) == CHOOSE m \in S : \A n \in S : m <= n

\* length of the longest run of \w characters of s that starts at position p
RECURSIVE WordRun(_, _)
WordRun(s, p) ==
    IF p <= Len(s) /\ IsWord(s[p]) THEN 1 + WordRun(s, p + 1) ELSE 0

\* length of the longest run of \s characters of s that starts at position p
RECURSIVE SpaceRun(_, _)
SpaceRun(s, p) ==
    IF p <= Len(s) /\ IsSpace(s[p]) THEN 1 + SpaceRun(s, p + 1) ELSE 0

\* length of the longest run of '.' characters (anything but a newline)
RECURSIVE DotRun(_, _)
DotRun(s, p) ==
    IF p <= Len(s) /\ s[p] # "\n" THEN 1 + DotRun(s, p + 1) ELSE 0

\* the literal w occurs in s at position p (exact case)
LitAt(s, p, w) ==
    /\ p >= 1
    /\ p + Len(w) - 1 <= Len(s)
    /\ \A i \in 1..Len(w) : s[p + i - 1] = w[i]

\* the literal w occurs in s at position p, ignoring case
LitAtCI(s, p, w) ==
    /\ p >= 1
    /\ p + Len(w) - 1 <= Len(s)
    /\ \A i \in 1..Len(w) : Lower(s[p + i - 1]) = Lower(w[i])

\* Python's  w in s
Contains(s, w) == \E p \in 1..(Len(s) + 1) : LitAt(s, p, w)

\* str.startswith / str.endswith
StartsWith(s, w) == LitAt(s, 1, w)
EndsWith(s, w) == LitAt(s, Len(s) - Len(w) + 1, w)

\* str.strip()
Strip(s) ==
    LET keep == {i \in 1..Len(s) : ~IsSpace(s[i])}
    IN  IF keep = {} THEN <<>> ELSE SubSeq(s, Min(keep), Max(keep))

\* ''.join(lines)
RECURSIVE Join(_)
Join(ls) == IF ls = <<>> THEN <<>> ELSE Head(ls) \o Join(Tail(ls))

--------------------------------------------------------------------------
(* Configuration data of the scanner. *)

kw_password == <<"p", "a", "s", "s", "w", "o", "r", "d">>
kw_token == <<"t", "o", "k", "e", "n">>
kw_secret == <<"s", "e", "c", "r", "e", "t">>
kw_api_key == <<"a", "p", "i", "_", "k", "e", "y">>
kw_sid == <<"s", "i", "d">>
kw_auth == <<"a", "u", "t", "h">>
kw_become_pass == <<"b", "e", "c", "o", "m", "e", "_", "p", "a", "s", "s">>

SENSITIVE_KEYWORDS == <<kw_password, kw_token, kw_secret, kw_api_key, kw_sid, kw_auth, kw_become_pass>>

\* "$ANSIBLE_VAULT;"
VaultMarker == <<"$", "A", "N", "S", "I", "B", "L", "E", "_", "V", "A", "U", "L", "T", ";">>

\* ".git" and "__pycache__"
DotGit == <<".", "g", "i", "t">>
PyCache == <<"_", "_", "p", "y", "c", "a", "c", "h", "e", "_", "_">>

\* (".md", ".txt", "README")
DocSuffixes == {<<".", "m", "d">>, <<".", "t", "x", "t">>, <<"R", "E", "A", "D", "M", "E">>}

\* "_hash", "_encrypted", "_vault", "_encoded" and "_file"
DerivedSuffixes == {<<"_", "h", "a", "s", "h">>, <<"_", "e", "n", "c", "r", "y", "p", "t", "e", "d">>, <<"_", "v", "a", "u", "l", "t">>, <<"_", "e", "n", "c", "o", "d", "e", "d">>}
FileSuffix == <<"_", "f", "i", "l", "e">>

\* "{{" and "}}"
OpenBraces == <<"{", "{">>
CloseBraces == <<"}", "}">>

--------------------------------------------------------------------------
(* The gates of scan_dry_run. *)

\* fault: only the last path segment is compared with the excluded names
ExcludedDirBasename(root) ==
    EndsWith(root, <<"/">> \o DotGit) \/ EndsWith(root, <<"/">> \o PyCache)

\* if '.git' in root or '__pycache__' in root: continue
ExcludedDir(root) == Contains(root, DotGit) \/ Contains(root, PyCache)

\* if file.endswith((".md", ".txt", "README")): continue
DocFile(name) == \E suffix \in DocSuffixes : EndsWith(name, suffix)

\* fault: the marker is looked for at the start of the content only
VaultEncryptedHeaderOnly(lines) == StartsWith(Join(lines), VaultMarker)

\* content = ''.join(lines); if "$ANSIBLE_VAULT;" in content: continue
VaultEncrypted(lines) == Contains(Join(lines), VaultMarker)

\* fault: the line is tested without being stripped
CommentLineUnstripped(line) == StartsWith(line, <<"#">>)

\* stripped = line.strip(); if stripped.startswith('#'): continue
CommentLine(line) == StartsWith(Strip(line), <<"#">>)

\* fault: the '-' of the pattern is optional, r'^\s*-?\s*["\']'
QuotedListItemDashOptional(line) ==
    LET stripped == Strip(line)
    IN  \/ (stripped # <<>> /\ IsQuote(stripped[1]))
        \/ \E a \in 0..SpaceRun(stripped, 1) :
               /\ LitAt(stripped, 1 + a, <<"-">>)
               /\ \E b \in 0..SpaceRun(stripped, 2 + a) :
                      /\ 2 + a + b <= Len(stripped)
                      /\ IsQuote(stripped[2 + a + b])

\* re.match(r'^\s*-\s*["\']', stripped)
QuotedListItem(line) ==
    LET stripped == Strip(line)
    IN  \E a \in 0..SpaceRun(stripped, 1) :
            /\ LitAt(stripped, 1 + a, <<"-">>)
            /\ \E b \in 0..SpaceRun(stripped, 2 + a) :
                   /\ 2 + a + b <= Len(stripped)
                   /\ IsQuote(stripped[2 + a + b])

--------------------------------------------------------------------------
(* pattern = fr'\w*{key}\w*\s*[:=]\s*(.+)' under re.IGNORECASE.  Every      *)
(* quantifier is greedy: the engine takes the longest repetition for which *)
(* the rest of the pattern still matches, leftmost quantifier first.       *)

NoMatch == [start |-> 0, vstart |-> 0, end |-> 0]

\* repetitions of the second \s* (the one after [:=] at q - 1) that leave (.+) a character
ValueGaps(line, q) ==
    {g \in 0..SpaceRun(line, q) : DotRun(line, q + g) >= 1}

\* repetitions of the first \s* (starting at p) after which [:=]\s*(.+) matches
SeparatorGaps(line, p) ==
    {g \in 0..SpaceRun(line, p) :
        /\ p + g <= Len(line)
        /\ IsSeparator(line[p + g])
        /\ ValueGaps(line, p + g + 1) # {}}

\* repetitions of the second \w* (starting at p) after which \s*[:=]\s*(.+) matches
TokenTails(line, p) ==
    {b \in 0..WordRun(line, p) : SeparatorGaps(line, p + b) # {}}

\* repetitions of the first \w* (starting at s) after which {key}\w*\s*[:=]\s*(.+) matches
TokenHeads(line, s, key) ==
    {a \in 0..WordRun(line, s) :
        /\ LitAtCI(line, s + a, key)
        /\ TokenTails(line, s + a + Len(key)) # {}}

\* the match of the pattern that starts at position s, if there is one:
\* group(0) is line[start..end] and group(1) is line[vstart..end]
MatchAt(line, s, key) ==
    IF TokenHeads(line, s, key) = {} THEN NoMatch
    ELSE LET a == Max(TokenHeads(line, s, key))
             p == s + a + Len(key)
             b == Max(TokenTails(line, p))
             g == Max(SeparatorGaps(line, p + b))
             q == p + b + g + 1
             v == q + Max(ValueGaps(line, q))
         IN  [start |-> s, vstart |-> v, end |-> v + DotRun(line, v) - 1]

\* re.finditer(pattern, line, re.IGNORECASE): the leftmost match at or after
\* position from, then the matches after its end
RECURSIVE FindIter(_, _, _)
FindIter(line, from, key) ==
    LET starts == {s \in from..Len(line) : MatchAt(line, s, key) # NoMatch}
    IN  IF starts = {} THEN <<>>
        ELSE LET m == MatchAt(line, Min(starts), key)
             IN  <<m>> \o FindIter(line, m.end + 1, key)

\* fault: only the opening braces are looked for
TemplatedValueOpenOnly(value) == Contains(value, OpenBraces)

\* if '{{' in value or '}}' in value: continue
TemplatedValue(value) == Contains(value, OpenBraces) \/ Contains(value, CloseBraces)

\* fault: the search is made without re.IGNORECASE
DerivedValueCaseSensitive(full_match) ==
    \E p \in 1..Len(full_match), suffix \in DerivedSuffixes :
        /\ LitAt(full_match, p, suffix)
        /\ \E g \in 0..SpaceRun(full_match, p + Len(suffix)) :
               /\ p + Len(suffix) + g <= Len(full_match)
               /\ IsSeparator(full_match[p + Len(suffix) + g])

\* re.search(r'_(hash|encrypted|vault|encoded)\s*[:=]', full_match, re.IGNORECASE)
DerivedValue(full_match) ==
    \E p \in 1..Len(full_match), suffix \in DerivedSuffixes :
        /\ LitAtCI(full_match, p, suffix)
        /\ \E g \in 0..SpaceRun(full_match, p + Len(suffix)) :
               /\ p + Len(suffix) + g <= Len(full_match)
               /\ IsSeparator(full_match[p + Len(suffix) + g])

\* re.search(r'_file\s*[:=]', full_match, re.IGNORECASE)
PathIndirection(full_match) ==
    \E p \in 1..Len(full_match) :
        /\ LitAtCI(full_match, p, FileSuffix)
        /\ \E g \in 0..SpaceRun(full_match, p + Len(FileSuffix)) :
               /\ p + Len(FileSuffix) + g <= Len(full_match)
               /\ IsSeparator(full_match[p + Len(FileSuffix) + g])

\* the three `continue` tests of the match loop
Suppressed(full_match, value) ==
    \/ TemplatedValue(value)
    \/ DerivedValue(full_match)
    \/ PathIndirection(full_match)

\* one iteration of `for match in matches`: the local variables and whether
\* the iteration reached the FLAG prints
Candidate(line, key, m) ==
    LET full_match == SubSeq(line, m.start, m.end)
        value == Strip(SubSeq(line, m.vstart, m.end))
    IN  [key |-> key, full_match |-> full_match, value |-> value,
         flagged |-> ~Suppressed(full_match, value)]

\* `for match in matches: ... break`: the iterations run for one keyword; the
\* break after a FLAG leaves this loop and the later matches are not examined
RECURSIVE MatchLoop(_, _, _)
MatchLoop(line, key, matches) ==
    IF matches = <<>> THEN <<>>
    ELSE LET c == Candidate(line, key, Head(matches))
         IN  IF c.flagged THEN <<c>>
             ELSE <<c>> \o MatchLoop(line, key, Tail(matches))

\* `for key in SENSITIVE_KEYWORDS`, from the k-th keyword on: the candidates
\* examined for one line, in the order the code examines them
RECURSIVE KeywordLoop(_, _)
KeywordLoop(line, k) ==
    IF k > Len(SENSITIVE_KEYWORDS) THEN <<>>
    ELSE MatchLoop(line, SENSITIVE_KEYWORDS[k],
                   FindIter(line, 1, SENSITIVE_KEYWORDS[k]))
         \o KeywordLoop(line, k + 1)

--------------------------------------------------------------------------
(* The trees the scanner is run on.  A tree is the sequence of            *)
(* (root, files) entries os.walk(base_path) yields, top-down; a file has   *)
(* a name, the lines readlines() returns and whether open() succeeds.      *)

MaxFiles == 2
MaxRuns == 2

\* os.path.expanduser("~/ansible")
base_path == <<"/", "h", "o", "m", "e", "/", "u", "/", "a", "n", "s", "i", "b", "l", "e">>
\* /
Slash == <<"/">>

\* the directories below base_path, in the order os.walk yields them
dir_base == base_path
dir_git == base_path \o <<"/", ".", "g", "i", "t">>
dir_git_hooks == base_path \o <<"/", ".", "g", "i", "t", "/", "h", "o", "o", "k", "s">>
dir_github == base_path \o <<"/", ".", "g", "i", "t", "h", "u", "b">>
dir_roles == base_path \o <<"/", "r", "o", "l", "e", "s">>
dir_roles_pycache == base_path \o <<"/", "r", "o", "l", "e", "s", "/", "_", "_", "p", "y", "c", "a", "c", "h", "e", "_", "_">>
DirPool == <<dir_base, dir_git, dir_git_hooks, dir_github, dir_roles, dir_roles_pycache>>

File(name, readable, lines) == [name |-> name, readable |-> readable, lines |-> lines]

\* password: hunter2\n
line_password == <<"p", "a", "s", "s", "w", "o", "r", "d", ":", " ", "h", "u", "n", "t", "e", "r", "2", "\n">>
\* name: web\n
line_name == <<"n", "a", "m", "e", ":", " ", "w", "e", "b", "\n">>
\* auth_token: x\n
line_auth_token == <<"a", "u", "t", "h", "_", "t", "o", "k", "e", "n", ":", " ", "x", "\n">>
\* secret: s3\n
line_secret == <<"s", "e", "c", "r", "e", "t", ":", " ", "s", "3", "\n">>
\* password: plaintext\n
line_plaintext == <<"p", "a", "s", "s", "w", "o", "r", "d", ":", " ", "p", "l", "a", "i", "n", "t", "e", "x", "t", "\n">>
\* $ANSIBLE_VAULT;1.1;AES256\n
line_vault_header == <<"$", "A", "N", "S", "I", "B", "L", "E", "_", "V", "A", "U", "L", "T", ";", "1", ".", "1", ";", "A", "E", "S", "2", "5", "6", "\n">>
\* token: abc123\n
line_token == <<"t", "o", "k", "e", "n", ":", " ", "a", "b", "c", "1", "2", "3", "\n">>
\* vars.yml
name_vars == <<"v", "a", "r", "s", ".", "y", "m", "l">>
\* locked.yml
name_locked == <<"l", "o", "c", "k", "e", "d", ".", "y", "m", "l">>
\* vault.yml
name_vault == <<"v", "a", "u", "l", "t", ".", "y", "m", "l">>
\* notes.md
name_notes == <<"n", "o", "t", "e", "s", ".", "m", "d">>

\* the files a directory of a tree may hold, in directory-listing order
FilePool ==
    << File(name_vars, TRUE, <<line_password, line_name, line_auth_token>>),
       File(name_locked, FALSE, <<line_secret>>),
       File(name_vault, TRUE, <<line_plaintext, line_vault_header>>),
       File(name_notes, TRUE, <<line_token>>) >>

Placements == (DOMAIN DirPool) \X (DOMAIN FilePool)

\* the sets of at most n placements of a pool file in a pool directory
RECURSIVE PlacementSets(_)
PlacementSets(n) ==
    IF n = 0 THEN {{}}
    ELSE LET smaller == PlacementSets(n - 1)
         IN  smaller \cup {S \cup {pl} : S \in smaller, pl \in Placements}

\* the files of FilePool, from the j-th on, that S places in directory i
RECURSIVE FilesIn(_, _, _)
FilesIn(S, i, j) ==
    IF j > Len(FilePool) THEN <<>>
    ELSE (IF <<i, j>> \in S THEN <<FilePool[j]>> ELSE <<>>) \o FilesIn(S, i, j + 1)

TreeOf(S) == [i \in DOMAIN DirPool |-> [root |-> DirPool[i], files |-> FilesIn(S, i, 1)]]

\* trees of several directories and files
PoolTrees == {TreeOf(S) : S \in PlacementSets(MaxFiles)}

\* 
lead_none == <<>>
\*   
lead_indent == <<" ", " ">>
\*  # 
lead_comment == <<" ", "#", " ">>
\* - "
lead_item_dq == <<"-", " ", "\"">>
\*   -'
lead_item_sq == <<" ", " ", "-", "'">>
\* "
lead_dq == <<"\"">>
\*  '
lead_sq == <<" ", "'">>
Leads == {lead_none, lead_indent, lead_comment, lead_item_dq, lead_item_sq, lead_dq, lead_sq}

\* password
tok_password == <<"p", "a", "s", "s", "w", "o", "r", "d">>
\* auth_token
tok_auth_token == <<"a", "u", "t", "h", "_", "t", "o", "k", "e", "n">>
\* become_pass_file
tok_become_pass_file == <<"b", "e", "c", "o", "m", "e", "_", "p", "a", "s", "s", "_", "f", "i", "l", "e">>
\* wireguard_password_hash
tok_wireguard_password_hash == <<"w", "i", "r", "e", "g", "u", "a", "r", "d", "_", "p", "a", "s", "s", "w", "o", "r", "d", "_", "h", "a", "s", "h">>
\* Secret_Encoded
tok_Secret_Encoded == <<"S", "e", "c", "r", "e", "t", "_", "E", "n", "c", "o", "d", "e", "d">>
\* api_key_VAULT
tok_api_key_VAULT == <<"a", "p", "i", "_", "k", "e", "y", "_", "V", "A", "U", "L", "T">>
\* db_token_encrypted
tok_db_token_encrypted == <<"d", "b", "_", "t", "o", "k", "e", "n", "_", "e", "n", "c", "r", "y", "p", "t", "e", "d">>
\* inside_the_box
tok_inside_the_box == <<"i", "n", "s", "i", "d", "e", "_", "t", "h", "e", "_", "b", "o", "x">>
\* name
tok_name == <<"n", "a", "m", "e">>
Tokens == {tok_password, tok_auth_token, tok_become_pass_file, tok_wireguard_password_hash, tok_Secret_Encoded, tok_api_key_VAULT, tok_db_token_encrypted, tok_inside_the_box, tok_name}

\* : 
sep_colon == <<":", " ">>
\*  = 
sep_equals == <<" ", "=", " ">>
Seps == {sep_colon, sep_equals}

\* hunter2
val_hunter2 == <<"h", "u", "n", "t", "e", "r", "2">>
\* {{ vault_wg_hash }}
val_template == <<"{", "{", " ", "v", "a", "u", "l", "t", "_", "w", "g", "_", "h", "a", "s", "h", " ", "}", "}">>
\* a}}
val_close_only == <<"a", "}", "}">>
\* /etc/secrets/pass.txt
val_path == <<"/", "e", "t", "c", "/", "s", "e", "c", "r", "e", "t", "s", "/", "p", "a", "s", "s", ".", "t", "x", "t">>
\* my_file=x
val_my_file == <<"m", "y", "_", "f", "i", "l", "e", "=", "x">>
\* $ANSIBLE_VAULT;1
val_vault == <<"$", "A", "N", "S", "I", "B", "L", "E", "_", "V", "A", "U", "L", "T", ";", "1">>
Values == {val_hunter2, val_template, val_close_only, val_path, val_my_file, val_vault}

\* main.yml
name_main == <<"m", "a", "i", "n", ".", "y", "m", "l">>

\* "password: hunter2" in double quotes, and a quoted help message
line_quoted_password == <<"\"", "p", "a", "s", "s", "w", "o", "r", "d", ":", " ", "h", "u", "n", "t", "e", "r", "2", "\"", "\n">>
line_usage == <<" ", " ", "-", " ", "\"", "U", "s", "a", "g", "e", ":", " ", "a", "d", "d", "t", "v", " ", "<", "s", "h", "o", "w", " ", "n", "a", "m", "e", ">", "\"", "\n">>

\* the lines  <lead><token><separator><value>\n  and the two quoted lines
LinePool ==
    {lead \o tok \o sep \o val \o <<"\n">> :
        lead \in Leads, tok \in Tokens, sep \in Seps, val \in Values}
    \cup {line_quoted_password, line_usage}

\* trees of one directory that holds one readable file of one line
LineTrees ==
    {<<[root |-> base_path, files |-> <<File(name_main, TRUE, <<line>>)>>]>> :
        line \in LinePool}

\* os.walk yields nothing when base_path is missing or cannot be listed
MissingRoot == <<>>

Trees == PoolTrees \cup LineTrees \cup {MissingRoot}

--------------------------------------------------------------------------
(* What the scanner prints, one record per report item. *)

Item(kind, path, num, files, key, text) ==
    [kind |-> kind, path |-> path, num |-> num, files |-> files, key |-> key, text |-> text]

\* print(f"SCANNING: Checking {base_path} for unencrypted secrets...")
Banner == Item("SCANNING", base_path, 0, 0, <<>>, <<>>)

\* the four prints of one flag: FLAG file_path:line_num, Keyword, Line, blank
Flag(file_path, line_num, key, line) ==
    Item("FLAG", file_path, line_num, 0, key, Strip(line))

\* fault: the summary counts flags where it should count flagged files
FailedCountsFlags(count, files) == Item("SCAN FAILED", <<>>, count, count, <<>>, <<>>)

\* the prints of the summary
Failed(count, files) == Item("SCAN FAILED", <<>>, count, files, <<>>, <<>>)
Recommendations == Item("Recommendations", <<>>, 0, 0, <<>>, <<>>)
Passed == Item("SCAN PASSED", <<>>, 0, 0, <<>>, <<>>)

\* fault: the comparison is off by one
ExitCodeOffByOne(count) == IF count > 1 THEN 1 ELSE 0

\* return 1 if found_count > 0 else 0
ExitCode(count) == IF count > 0 THEN 1 ELSE 0

\* the report of the flags of one line, in the order they are printed
RECURSIVE Flags(_, _, _, _)
Flags(cs, file_path, line_num, line) ==
    IF cs = <<>> THEN <<>>
    ELSE (IF Head(cs).flagged
          THEN <<Flag(file_path, line_num, Head(cs).key, line)>> ELSE <<>>)
         \o Flags(Tail(cs), file_path, line_num, line)

--------------------------------------------------------------------------
(* The scan as a state machine: one step per iteration of its loops. *)

VARIABLES
    fs,             \* the tree under base_path
    pc,             \* "walk", "files", "lines": at the head of that loop; "summary"; "done"
    di, fi, li,     \* the directory, file and line of the current iterations
    found_count,
    flagged_files,
    output,         \* what has been printed
    exit_code,      \* the value handed to sys.exit, -1 while running
    cands,          \* the candidate matches examined for line li
    run,            \* how many times the hook has been started
    prev            \* tree, output and exit code of the previous run

\* commander.py: the state of the WhatsApp bot, a process of its own
VARIABLES
    cfg,              \* the file at AUTODL_FILTER_PATH
    call,             \* the last call of add_autodl_filter and what it returned
    environ,          \* the environment variable ALLOWED_WHATSAPP_NUMBERS
    ALLOWED_NUMBERS,  \* the module-level list computed at import
    request,          \* the webhook request handled last, with what its calls out returned
    ran,              \* the calls made for that request, in order
    response,         \* the body of the reply to that request, "403" when aborted
    at,               \* where whatsapp_bot stands: "idle", "voice" or "reply"
    voice_file,       \* the content of /tmp/whatsapp_voice.ogg
    voice             \* the position and locals of each request in the voice block

svars == <<fs, pc, di, fi, li, found_count, flagged_files, output, exit_code, cands, run, prev>>
cvars == <<cfg, call, environ, ALLOWED_NUMBERS, request, ran, response, at, voice_file, voice>>
vars == <<svars, cvars>>

\* no file, no call, no request: the bot is not running
NoConfig == [exists |-> FALSE, writable |-> TRUE, content |-> <<>>]
NoCall == [show_name |-> <<>>, filter_type |-> "", before |-> <<>>, result |-> ""]
Unset == [set |-> FALSE, value |-> <<>>]
NoRequest == [From |-> <<>>, Body |-> <<>>, signed |-> FALSE, MediaUrl0 |-> FALSE,
              MediaContentType0 |-> <<>>, status_code |-> 0, transcript |-> <<>>,
              ollama_reply |-> <<>>]
NoFile == 0

CommanderIdle ==
    /\ cfg = NoConfig
    /\ call = NoCall
    /\ environ = Unset
    /\ ALLOWED_NUMBERS = <<>>
    /\ request = NoRequest
    /\ ran = <<>>
    /\ response = ""
    /\ at = "idle"
    /\ voice_file = NoFile
    /\ voice = <<>>

NoRun == [fs |-> <<>>, output |-> <<>>, exit_code |-> -1]

\* the locals of scan_dry_run when the process starts
Start ==
    /\ pc = "walk"
    /\ di = 0 /\ fi = 0 /\ li = 0
    /\ found_count = 0
    /\ flagged_files = {}
    /\ output = <<Banner>>
    /\ exit_code = -1
    /\ cands = <<>>

Init ==
    /\ fs \in Trees
    /\ Start
    /\ run = 1
    /\ prev = NoRun
    /\ CommanderIdle

dir == fs[di]
files == dir.files
file == files[fi]
\* os.path.join(root, file)
file_path == dir.root \o Slash \o file.name
lines == file.lines

\* for root, dirs, files in os.walk(base_path): '.git' or '__pycache__' in root
WalkExcluded ==
    /\ pc = "walk"
    /\ di < Len(fs)
    /\ ExcludedDir(fs[di + 1].root)
    /\ di' = di + 1
    /\ UNCHANGED <<fs, pc, fi, li, found_count, flagged_files, output, exit_code, cands, run, prev, cvars>>

\* os.walk yields a directory that is not excluded
WalkEnter ==
    /\ pc = "walk"
    /\ di < Len(fs)
    /\ ~ExcludedDir(fs[di + 1].root)
    /\ di' = di + 1
    /\ fi' = 0
    /\ pc' = "files"
    /\ UNCHANGED <<fs, li, found_count, flagged_files, output, exit_code, cands, run, prev, cvars>>

\* os.walk is exhausted
WalkDone ==
    /\ pc = "walk"
    /\ di = Len(fs)
    /\ pc' = "summary"
    /\ UNCHANGED <<fs, di, fi, li, found_count, flagged_files, output, exit_code, cands, run, prev, cvars>>

\* for file in files: a documentation file
FileDoc ==
    /\ pc = "files"
    /\ fi < Len(files)
    /\ DocFile(files[fi + 1].name)
    /\ fi' = fi + 1
    /\ UNCHANGED <<fs, pc, di, li, found_count, flagged_files, output, exit_code, cands, run, prev, cvars>>

\* fault: except: break, the rest of the directory is not scanned
FileUnreadableBreak ==
    /\ pc = "files"
    /\ fi < Len(files)
    /\ ~DocFile(files[fi + 1].name)
    /\ ~files[fi + 1].readable
    /\ pc' = "walk"
    /\ UNCHANGED <<fs, di, fi, li, found_count, flagged_files, output, exit_code, cands, run, prev, cvars>>

\* open() or readlines() raises: except: continue
FileUnreadable ==
    /\ pc = "files"
    /\ fi < Len(files)
    /\ ~DocFile(files[fi + 1].name)
    /\ ~files[fi + 1].readable
    /\ fi' = fi + 1
    /\ UNCHANGED <<fs, pc, di, li, found_count, flagged_files, output, exit_code, cands, run, prev, cvars>>

\* the content holds the vault marker
FileVault ==
    /\ pc = "files"
    /\ fi < Len(files)
    /\ ~DocFile(files[fi + 1].name)
    /\ files[fi + 1].readable
    /\ VaultEncrypted(files[fi + 1].lines)
    /\ fi' = fi + 1
    /\ UNCHANGED <<fs, pc, di, li, found_count, flagged_files, output, exit_code, cands, run, prev, cvars>>

\* the file is read and its lines are enumerated
FileOpen ==
    /\ pc = "files"
    /\ fi < Len(files)
    /\ ~DocFile(files[fi + 1].name)
    /\ files[fi + 1].readable
    /\ ~VaultEncrypted(files[fi + 1].lines)
    /\ fi' = fi + 1
    /\ li' = 0
    /\ cands' = <<>>
    /\ pc' = "lines"
    /\ UNCHANGED <<fs, di, found_count, flagged_files, output, exit_code, run, prev, cvars>>

\* the files of the directory are exhausted
FilesDone ==
    /\ pc = "files"
    /\ fi = Len(files)
    /\ pc' = "walk"
    /\ UNCHANGED <<fs, di, fi, li, found_count, flagged_files, output, exit_code, cands, run, prev, cvars>>

\* for line_num, line in enumerate(lines, 1): a comment
LineComment ==
    /\ pc = "lines"
    /\ li < Len(lines)
    /\ CommentLine(lines[li + 1])
    /\ li' = li + 1
    /\ cands' = <<>>
    /\ UNCHANGED <<fs, pc, di, fi, found_count, flagged_files, output, exit_code, run, prev, cvars>>

\* a quoted YAML list item
LineQuoted ==
    /\ pc = "lines"
    /\ li < Len(lines)
    /\ ~CommentLine(lines[li + 1])
    /\ QuotedListItem(lines[li + 1])
    /\ li' = li + 1
    /\ cands' = <<>>
    /\ UNCHANGED <<fs, pc, di, fi, found_count, flagged_files, output, exit_code, run, prev, cvars>>

\* fault: enumerate(lines) numbers the lines from 0
LineClassifyFromZero ==
    /\ pc = "lines"
    /\ li < Len(lines)
    /\ ~CommentLine(lines[li + 1])
    /\ ~QuotedListItem(lines[li + 1])
    /\ LET line == lines[li + 1]
           cs == KeywordLoop(line, 1)
           flags == Flags(cs, file_path, li, line)
       IN  /\ cands' = cs
           /\ output' = output \o flags
           /\ found_count' = found_count + Len(flags)
           /\ flagged_files' = IF flags = <<>> THEN flagged_files
                               ELSE flagged_files \cup {file_path}
    /\ li' = li + 1
    /\ UNCHANGED <<fs, pc, di, fi, exit_code, run, prev, cvars>>

\* the keyword loop runs over the line
LineClassify ==
    /\ pc = "lines"
    /\ li < Len(lines)
    /\ ~CommentLine(lines[li + 1])
    /\ ~QuotedListItem(lines[li + 1])
    /\ LET line == lines[li + 1]
           cs == KeywordLoop(line, 1)
           flags == Flags(cs, file_path, li + 1, line)
       IN  /\ cands' = cs
           /\ output' = output \o flags
           /\ found_count' = found_count + Len(flags)
           /\ flagged_files' = IF flags = <<>> THEN flagged_files
                               ELSE flagged_files \cup {file_path}
    /\ li' = li + 1
    /\ UNCHANGED <<fs, pc, di, fi, exit_code, run, prev, cvars>>

\* the lines of the file are exhausted
LinesDone ==
    /\ pc = "lines"
    /\ li = Len(lines)
    /\ pc' = "files"
    /\ cands' = <<>>
    /\ UNCHANGED <<fs, di, fi, li, found_count, flagged_files, output, exit_code, run, prev, cvars>>

\* the summary prints, the return value and sys.exit(exit_code)
Summary ==
    /\ pc = "summary"
    /\ output' = output \o
           (IF found_count > 0
            THEN <<Failed(found_count, Cardinality(flagged_files)), Recommendations>>
            ELSE <<Passed>>)
    /\ exit_code' = ExitCode(found_count)
    /\ pc' = "done"
    /\ UNCHANGED <<fs, di, fi, li, found_count, flagged_files, cands, run, prev, cvars>>

\* the tree without the files that cannot be read
RECURSIVE Readable(_)
Readable(fl) ==
    IF fl = <<>> THEN <<>>
    ELSE (IF Head(fl).readable THEN <<Head(fl)>> ELSE <<>>) \o Readable(Tail(fl))

WithoutUnreadable(tree) ==
    [i \in DOMAIN tree |-> [root |-> tree[i].root, files |-> Readable(tree[i].files)]]

\* fault: found_count outlives the run, it is not set to 0 when a scan starts
AgainKeepsCount(tree) ==
    /\ pc = "done"
    /\ run < MaxRuns
    /\ prev' = [fs |-> fs, output |-> output, exit_code |-> exit_code]
    /\ run' = run + 1
    /\ fs' = tree
    /\ pc' = "walk"
    /\ di' = 0 /\ fi' = 0 /\ li' = 0
    /\ found_count' = found_count
    /\ flagged_files' = {}
    /\ output' = <<Banner>>
    /\ exit_code' = -1
    /\ cands' = <<>>
    /\ UNCHANGED cvars

\* the hook is started again, on the tree the environment left
Again(tree) ==
    /\ pc = "done"
    /\ run < MaxRuns
    /\ prev' = [fs |-> fs, output |-> output, exit_code |-> exit_code]
    /\ run' = run + 1
    /\ fs' = tree
    /\ pc' = "walk"
    /\ di' = 0 /\ fi' = 0 /\ li' = 0
    /\ found_count' = 0
    /\ flagged_files' = {}
    /\ output' = <<Banner>>
    /\ exit_code' = -1
    /\ cands' = <<>>
    /\ UNCHANGED cvars

RerunSame == Again(fs)
RerunCleaned == Again(WithoutUnreadable(fs))
RerunRootGone == Again(MissingRoot)

Next ==
    \/ WalkExcluded \/ WalkEnter \/ WalkDone
    \/ FileDoc \/ FileUnreadable \/ FileVault \/ FileOpen \/ FilesDone
    \/ LineComment \/ LineQuoted \/ LineClassify \/ LinesDone
    \/ Summary
    \/ RerunSame \/ RerunCleaned \/ RerunRootGone

Spec == Init /\ [][Next]_vars

\* the steps of one run of the scanner
ScanStep ==
    \/ WalkExcluded \/ WalkEnter \/ WalkDone
    \/ FileDoc \/ FileUnreadable \/ FileVault \/ FileOpen \/ FilesDone
    \/ LineComment \/ LineQuoted \/ LineClassify \/ LinesDone
    \/ Summary

--------------------------------------------------------------------------
(* Vocabulary of the properties. *)

\* the Findings of a report, in the order they were reported
IsFlag(item) == item.kind = "FLAG"
Findings(out) == SelectSeq(out, IsFlag)

\* the Findings reported for line num of the file at path
FindingsAt(path, num) ==
    {i \in DOMAIN output : IsFlag(output[i]) /\ output[i].path = path /\ output[i].num = num}

\* the Findings reported for the file at path
FindingsIn(path) == {i \in DOMAIN output : IsFlag(output[i]) /\ output[i].path = path}

PathOf(d, f) == fs[d].root \o <<"/">> \o fs[d].files[f].name

\* the scan stands behind line li of a file: the line it has just handled
AfterLine == pc = "lines" /\ li >= 1
line_li == lines[li]

\* seg is one of the '/'-separated segments of path
HasSegment(path, seg) ==
    \E p \in 1..Len(path) :
        /\ LitAt(path, p, seg)
        /\ (p = 1 \/ path[p - 1] = "/")
        /\ (p + Len(seg) > Len(path) \/ path[p + Len(seg)] = "/")

UnderExcludedDir(root) == HasSegment(root, DotGit) \/ HasSegment(root, PyCache)

\* the token of a candidate: the word characters its match starts with
TokenOf(c) == SubSeq(c.full_match, 1, WordRun(c.full_match, 1))

\* text ends with suffix, in any letter case
EndsWithCI(text, suffix) == LitAtCI(text, Len(text) - Len(suffix) + 1, suffix)

--------------------------------------------------------------------------
(* C1: when the scan has returned, the exit code is 1 if at least one      *)
(* Finding was reported and 0 if none was; no other value is produced.     *)
C1_ExitCodeMapping ==
    /\ exit_code \in {-1, 0, 1}
    /\ (exit_code = -1) <=> (pc # "done")
    /\ pc = "done" =>
          /\ (exit_code = 1) <=> (Findings(output) # <<>>)
          /\ (exit_code = 0) <=> (Findings(output) = <<>>)

\* a scan that reported several Findings has returned 1
C1_Witness == pc = "done" /\ exit_code = 1 /\ Len(Findings(output)) >= 2

(* C2: the scan reports at most one Finding for any line of any file.      *)
C2_OneFindingPerLine ==
    \A i, j \in DOMAIN output :
        (IsFlag(output[i]) /\ IsFlag(output[j]) /\ i # j)
            => ~(output[i].path = output[j].path /\ output[i].num = output[j].num)

(* C3: a file whose content holds "$ANSIBLE_VAULT;" anywhere gets no        *)
(* Finding, and the scan never enters the line loop of such a file.        *)
C3_VaultFileNoFindings ==
    /\ \A d \in DOMAIN fs : \A f \in DOMAIN fs[d].files :
           Contains(Join(fs[d].files[f].lines), VaultMarker)
               => FindingsIn(PathOf(d, f)) = {}
    /\ pc = "lines" => ~Contains(Join(lines), VaultMarker)

\* the scan has passed a readable file that holds the marker after a secret-shaped line
C3_Witness ==
    /\ pc = "files"
    /\ fi >= 1
    /\ ~UnderExcludedDir(dir.root)
    /\ file.readable
    /\ file.lines = <<line_plaintext, line_vault_header>>
    /\ FindingsIn(file_path) = {}

(* C4: a candidate match whose value holds "{{" or "}}" produces no Finding *)
(* for its keyword on its line.                                            *)
C4_TemplatedValueNoFinding ==
    AfterLine =>
        \A i \in DOMAIN cands :
            (Contains(cands[i].value, OpenBraces) \/ Contains(cands[i].value, CloseBraces))
                => /\ ~cands[i].flagged
                   /\ \A n \in FindingsAt(file_path, li) : output[n].key # cands[i].key

\* the line  password: a}}  has been classified: its only candidate holds "}}" alone
C4_Witness ==
    /\ AfterLine
    /\ line_li = tok_password \o sep_colon \o val_close_only \o <<"\n">>
    /\ Len(cands) = 1
    /\ cands[1].value = val_close_only
    /\ found_count = 0

CommentShape(line) == LitAt(line, SpaceRun(line, 1) + 1, <<"#">>)
QuotedItemShape(line) ==
    /\ LitAt(line, SpaceRun(line, 1) + 1, <<"-">>)
    /\ LET q == SpaceRun(line, 1) + 2 + SpaceRun(line, SpaceRun(line, 1) + 2)
       IN  q <= Len(line) /\ line[q] \in {"\"", "'"}

C6_SkippableLineNoFinding ==
    AfterLine =>
        ((CommentShape(line_li) \/ QuotedItemShape(line_li))
            => (cands = <<>> /\ FindingsAt(file_path, li) = {}))

\* the scan has passed the line  " # password: hunter2"
C6_Witness ==
    /\ AfterLine
    /\ line_li = lead_comment \o tok_password \o sep_colon \o val_hunter2 \o <<"\n">>
    /\ found_count = 0

\* the trimmed text of the line opens directly with a single or double quote
OpensWithQuote(line) ==
    SpaceRun(line, 1) < Len(line) /\ line[SpaceRun(line, 1) + 1] \in {"\"", "'"}

(* C7, as stated: a line whose trimmed text opens directly with a quote,   *)
(* without a leading '-', is skipped: it is not classified and it gets no  *)
(* Finding.                                                                *)
C7_QuoteWithoutDashSkipped ==
    (AfterLine /\ OpensWithQuote(line_li))
        => (cands = <<>> /\ FindingsAt(file_path, li) = {})

(* C7, amended: the '-' is required.  A line whose trimmed text opens      *)
(* directly with a quote is not skipped: the step the scan takes on it is  *)
(* the classification of the line, and "password: hunter2" in double       *)
(* quotes is reported with the keyword password.                           *)
C7_QuoteWithoutDashClassified ==
    [][(pc = "lines" /\ li < Len(lines) /\ OpensWithQuote(lines[li + 1]))
          => /\ LineClassify
             /\ lines[li + 1] = line_quoted_password
                   => /\ Len(output') = Len(output) + 1
                      /\ IsFlag(output'[Len(output')])
                      /\ output'[Len(output')].key = kw_password
                      /\ output'[Len(output')].num = li + 1]_vars

\* the quoted line "password: hunter2" has been classified and reported
C7_Witness ==
    /\ AfterLine
    /\ line_li = line_quoted_password
    /\ Len(cands) = 1
    /\ cands[1].flagged
    /\ FindingsAt(file_path, li) # {}

(* C8: no file of a directory that has a path segment equal to ".git" or   *)
(* "__pycache__" gets a Finding, the scan never enters such a directory,   *)
(* and a tree whose files all lie in such directories exits with 0.        *)
C8_ExcludedDirNoFinding ==
    /\ \A d \in DOMAIN fs :
           UnderExcludedDir(fs[d].root)
               => \A f \in DOMAIN fs[d].files : FindingsIn(PathOf(d, f)) = {}
    /\ pc \in {"files", "lines"} => ~UnderExcludedDir(dir.root)
    /\ (pc = "done" /\ \A d \in DOMAIN fs :
                           fs[d].files # <<>> => UnderExcludedDir(fs[d].root))
          => exit_code = 0

\* a scan is over that left out .git/hooks/vars.yml, which holds password: hunter2
C8_Witness ==
    /\ pc = "done"
    /\ Len(fs) = Len(DirPool)
    /\ \E d \in DOMAIN fs :
           /\ fs[d].root = dir_git_hooks
           /\ fs[d].files = <<FilePool[1]>>
    /\ exit_code = 0

\* the file at path cannot be read
Unreadable(path) ==
    \E d \in DOMAIN fs : \E f \in DOMAIN fs[d].files :
        PathOf(d, f) = path /\ ~fs[d].files[f].readable

\* an upper bound of the steps a scan still has to take: one per remaining
\* iteration of each loop, one per loop exit, one for the summary
RECURSIVE FilesCost(_)
FilesCost(fl) ==
    IF fl = <<>> THEN 0 ELSE Len(Head(fl).lines) + 2 + FilesCost(Tail(fl))

RECURSIVE DirsCost(_)
DirsCost(ds) ==
    IF ds = <<>> THEN 0 ELSE FilesCost(Head(ds).files) + 2 + DirsCost(Tail(ds))

StepsLeft ==
    CASE pc = "done" -> 0
      [] pc = "summary" -> 1
      [] pc = "walk" -> DirsCost(SubSeq(fs, di + 1, Len(fs))) + 2
      [] pc = "files" ->
            FilesCost(SubSeq(files, fi + 1, Len(files))) + 1
                + DirsCost(SubSeq(fs, di + 1, Len(fs))) + 2
      [] pc = "lines" ->
            (Len(lines) - li) + 1
                + FilesCost(SubSeq(files, fi + 1, Len(files))) + 1
                + DirsCost(SubSeq(fs, di + 1, Len(fs))) + 2

\* the scan stands at the head of one of its loops, inside the sequence the
\* loop runs over, or at its summary, or it has returned
AtLoopHead ==
    /\ pc \in {"walk", "files", "lines", "summary", "done"}
    /\ di \in 0..Len(fs)
    /\ pc \in {"files", "lines"} => (di >= 1 /\ fi \in 0..Len(files))
    /\ pc = "lines" => (fi >= 1 /\ li \in 0..Len(lines))

\* the next file of the directory cannot be read
AtUnreadable ==
    /\ pc = "files"
    /\ fi < Len(files)
    /\ ~files[fi + 1].readable
    /\ \A suffix \in DocSuffixes : ~EndsWith(files[fi + 1].name, suffix)

(* C9: a file that cannot be read never stops the scan.  The step taken on *)
(* such a file goes on to the next file of the directory and reports       *)
(* nothing; every step of a scan that has not returned brings it closer to *)
(* its return, so it reaches its summary and returns an exit code; a file  *)
(* that cannot be read gets no Finding; and the Findings and the exit code *)
(* of a scan are those of the scan of the same tree with the unreadable    *)
(* files removed.                                                          *)
C9_UnreadableFileSkipped ==
    /\ [][AtUnreadable => (pc' = "files" /\ fi' = fi + 1 /\ di' = di /\ output' = output)]_vars
    /\ [][pc # "done" => (StepsLeft' >= 0 /\ StepsLeft' < StepsLeft)]_vars
    /\ []AtLoopHead
    /\ [](\A i \in DOMAIN output : IsFlag(output[i]) => ~Unreadable(output[i].path))
    /\ []((pc = "done" /\ run > 1 /\ fs = WithoutUnreadable(prev.fs))
             => /\ Findings(output) = Findings(prev.output)
                /\ exit_code = prev.exit_code)

\* a tree with an unreadable file and Findings was scanned, then scanned
\* again with the unreadable file removed
C9_Witness ==
    /\ pc = "done"
    /\ run > 1
    /\ fs # prev.fs
    /\ fs = WithoutUnreadable(prev.fs)
    /\ Findings(prev.output) # <<>>

(* C10: when base_path is missing the scan reports no Finding and returns  *)
(* 0, and its output differs from the output of a scan of an accessible    *)
(* tree that has no Finding.                                               *)
C10_MissingRootDistinguishable ==
    (/\ pc = "done"
     /\ run > 1
     /\ fs = MissingRoot
     /\ prev.fs # MissingRoot
     /\ Findings(prev.output) = <<>>)
        => /\ Findings(output) = <<>>
           /\ exit_code = 0
           /\ output # prev.output

ContainsCI(text, w) == \E p \in 1..Len(text) : LitAtCI(text, p, w)

\* the token carries none of the suffixes that mark a derived value or a path
PlainToken(t) == \A suffix \in DerivedSuffixes \cup {FileSuffix} : ~EndsWithCI(t, suffix)

\* the value holds no template braces
LiteralValue(v) == ~Contains(v, OpenBraces) /\ ~Contains(v, CloseBraces)

(* C12: every candidate of a classified line whose value holds neither     *)
(* "{{" nor "}}" and whose token does not end in _hash, _encrypted,        *)
(* _vault, _encoded or _file produces a Finding for its keyword, whatever  *)
(* else its value holds.                                                   *)
C12_OnlyOwnValueAndTokenSuppress ==
    AfterLine =>
        \A i \in DOMAIN cands :
            (LiteralValue(cands[i].value) /\ PlainToken(TokenOf(cands[i])))
                => \E n \in FindingsAt(file_path, li) : output[n].key = cands[i].key

\* the first keyword of the list that the token holds, in any letter case
FirstKeywordIn(t) ==
    SENSITIVE_KEYWORDS[
        CHOOSE k \in DOMAIN SENSITIVE_KEYWORDS :
            /\ ContainsCI(t, SENSITIVE_KEYWORDS[k])
            /\ \A j \in 1..(k - 1) : ~ContainsCI(t, SENSITIVE_KEYWORDS[j])]

(* C13: a classified line "t: v" or "t = v", where the word t holds a      *)
(* keyword in any letter case and carries no suppressing suffix and v is a *)
(* non-empty value without braces, is reported, and its first Finding      *)
(* names the first keyword of the list that t holds.                       *)
C13_SubstringKeywordReported ==
    AfterLine =>
        \A lead \in {lead_none, lead_indent}, t \in Tokens, sep \in Seps, v \in Values :
            (/\ line_li = lead \o t \o sep \o v \o <<"\n">>
             /\ \E k \in DOMAIN SENSITIVE_KEYWORDS : ContainsCI(t, SENSITIVE_KEYWORDS[k])
             /\ PlainToken(t)
             /\ LiteralValue(v))
                => /\ FindingsAt(file_path, li) # {}
                   /\ \A n \in FindingsAt(file_path, li) :
                          (\A m \in FindingsAt(file_path, li) : n <= m)
                              => output[n].key = FirstKeywordIn(t)

(* C14: a directory whose name only holds ".git" or "__pycache__" as a     *)
(* part of a longer segment is visited: a readable file in it that is      *)
(* neither documentation nor vault-encrypted and holds the line            *)
(* "password: hunter2" gets a Finding.                                     *)
C14_SubstringNamedDirVisited ==
    pc = "done" =>
        \A d \in DOMAIN fs : \A f \in DOMAIN fs[d].files :
            (/\ ~UnderExcludedDir(fs[d].root)
             /\ fs[d].files[f].readable
             /\ ~DocFile(fs[d].files[f].name)
             /\ ~VaultEncrypted(fs[d].files[f].lines)
             /\ \E n \in DOMAIN fs[d].files[f].lines : fs[d].files[f].lines[n] = line_password)
                => FindingsIn(PathOf(d, f)) # {}

(* C15: Findings come in discovery order: files in the order of the walk,  *)
(* the Findings of one file next to each other with line numbers that      *)
(* never decrease, and each number is the 1-based index, in its file, of   *)
(* the line that was flagged.                                              *)
C15_DiscoveryOrder ==
    /\ \A i, j \in DOMAIN output :
           (i < j /\ IsFlag(output[i]) /\ IsFlag(output[j]))
               => /\ \E d1 \in DOMAIN fs, d2 \in DOMAIN fs :
                         \E f1 \in DOMAIN fs[d1].files, f2 \in DOMAIN fs[d2].files :
                             /\ PathOf(d1, f1) = output[i].path
                                /\ PathOf(d2, f2) = output[j].path
                             /\ (d1 < d2 \/ (d1 = d2 /\ f1 <= f2))
                  /\ output[i].path = output[j].path
                         => /\ output[i].num <= output[j].num
                            /\ \A k \in i..j :
                                   IsFlag(output[k]) /\ output[k].path = output[i].path
    /\ \A i \in DOMAIN output :
           IsFlag(output[i])
               => \E d \in DOMAIN fs : \E f \in DOMAIN fs[d].files :
                      /\ PathOf(d, f) = output[i].path
                      /\ output[i].num \in DOMAIN fs[d].files[f].lines
                      /\ Strip(fs[d].files[f].lines[output[i].num]) = output[i].text
                      /\ ContainsCI(fs[d].files[f].lines[output[i].num], output[i].key)

\* two files were flagged, each on its first and on its third line
C15_Witness ==
    /\ pc = "done"
    /\ Cardinality(flagged_files) = 2
    /\ Len(Findings(output)) = 6
    /\ \E i, j \in DOMAIN output :
           /\ i < j
           /\ IsFlag(output[i]) /\ IsFlag(output[j])
           /\ output[i].path = output[j].path
           /\ output[i].num = 1 /\ output[j].num = 3

\* the paths of the files that have a Finding in the report
FlaggedPaths == {output[i].path : i \in {n \in DOMAIN output : IsFlag(output[n])}}

\* the summary lines of the report
SummaryItems == SelectSeq(output, LAMBDA item : item.kind \in {"SCAN FAILED", "Recommendations", "SCAN PASSED"})

(* C16: the summary gives as total the number of Findings printed and as   *)
(* file count the number of distinct paths with a Finding; the file count  *)
(* lies between 1 and the total when the total is positive; the            *)
(* recommendations are printed exactly when the total is positive.         *)
C16_SummaryCounts ==
    /\ pc # "done" => SummaryItems = <<>>
    /\ pc = "done" =>
          LET total == Len(Findings(output))
          IN  IF total > 0
              THEN /\ Len(SummaryItems) = 2
                   /\ SummaryItems[1].kind = "SCAN FAILED"
                   /\ SummaryItems[1].num = total
                   /\ SummaryItems[1].files = Cardinality(FlaggedPaths)
                   /\ 1 <= SummaryItems[1].files
                   /\ SummaryItems[1].files <= total
                   /\ SummaryItems[2].kind = "Recommendations"
              ELSE /\ Len(SummaryItems) = 1
                   /\ SummaryItems[1].kind = "SCAN PASSED"

\* a scan is over that flagged one file three times
C16_Witness ==
    /\ pc = "done"
    /\ Len(SummaryItems) = 2
    /\ SummaryItems[1].num = 3
    /\ SummaryItems[1].files = 1

--------------------------------------------------------------------------
(* commander.py: the filters of autodl-irssi. *)

\* str.lower()
LowerStr(s) == [i \in DOMAIN s |-> Lower(s[i])]

\* str.replace(" ", "")
RemoveSpaces(s) == SelectSeq(s, LAMBDA c : c # " ")

\* DOWNLOAD_DIR, with ~ expanded
DOWNLOAD_DIR == <<"/", "h", "o", "m", "e", "/", "u", "/", "D", "o", "w", "n", "l", "o", "a", "d", "s">>

\* filter_id = show_name.lower().replace(" ", "")
FilterId(show_name) == RemoveSpaces(LowerStr(show_name))

\* [filter {filter_id}]
SectionHeader(filter_id) == <<"[", "f", "i", "l", "t", "e", "r", " ">> \o filter_id \o <<"]">>

\* re.MULTILINE: ^ matches at the start of the text and behind each newline
AtLineStart(text, p) == p = 1 \/ text[p - 1] = "\n"

\* rf'^\[filter {re.escape(filter_id)}\]' matches text at position p
SectionAt(text, p, filter_id) ==
    AtLineStart(text, p) /\ LitAt(text, p, SectionHeader(filter_id))

\* os.path.exists(AUTODL_FILTER_PATH) and re.search(..., f.read(), re.MULTILINE)
filter_exists(config, show_name, filter_type) ==
    /\ config.exists
    /\ \E p \in 1..Len(config.content) : SectionAt(config.content, p, FilterId(show_name))

\* the two f-strings of add_autodl_filter
TvFilter(filter_id, show_name) ==
    <<"\n">> \o SectionHeader(filter_id)
        \o <<"\n", "e", "n", "a", "b", "l", "e", "d", "=", "1", "\n", "m", "a", "t", "c", "h", "-", "s", "i", "t", "e", "s", "=", "t", "l", "\n", "s", "h", "o", "w", "s", "=">>
        \o show_name
        \o <<"\n", "m", "a", "t", "c", "h", "-", "c", "a", "t", "e", "g", "o", "r", "i", "e", "s", "=", "T", "V", " ", "-", " ", "H", "D", ",", "T", "V", "\n", "r", "e", "s", "o", "l", "u", "t", "i", "o", "n", "s", "=", "7", "2", "0", "p", ",", "1", "0", "8", "0", "p", ",", "2", "1", "6", "0", "p", "\n", "s", "o", "u", "r", "c", "e", "s", "=", "W", "E", "B", "-", "D", "L", ",", "W", "E", "B", "D", "L", ",", "W", "E", "B", ",", "H", "D", "T", "V", ",", "B", "l", "u", "R", "a", "y", "\n", "m", "i", "n", "-", "s", "i", "z", "e", "=", "2", "0", "0", "M", "B", "\n", "m", "a", "x", "-", "s", "i", "z", "e", "=", "2", "5", "G", "B", "\n", "u", "p", "l", "o", "a", "d", "-", "w", "a", "t", "c", "h", "-", "d", "i", "r", "=">>
        \o DOWNLOAD_DIR \o <<"\n">>
MovieFilter(filter_id, show_name) ==
    <<"\n">> \o SectionHeader(filter_id)
        \o <<"\n", "e", "n", "a", "b", "l", "e", "d", "=", "1", "\n", "m", "a", "t", "c", "h", "-", "s", "i", "t", "e", "s", "=", "t", "l", "\n", "m", "a", "t", "c", "h", "-", "r", "e", "l", "e", "a", "s", "e", "s", "=", "*">>
        \o show_name
        \o <<"*", "\n", "m", "a", "t", "c", "h", "-", "c", "a", "t", "e", "g", "o", "r", "i", "e", "s", "=", "M", "o", "v", "i", "e", "s", " ", "-", " ", "H", "D", ",", "M", "o", "v", "i", "e", "s", "\n", "r", "e", "s", "o", "l", "u", "t", "i", "o", "n", "s", "=", "1", "0", "8", "0", "p", ",", "2", "1", "6", "0", "p", "\n", "m", "i", "n", "-", "s", "i", "z", "e", "=", "1", "G", "B", "\n", "m", "a", "x", "-", "s", "i", "z", "e", "=", "4", "0", "G", "B", "\n", "u", "p", "l", "o", "a", "d", "-", "w", "a", "t", "c", "h", "-", "d", "i", "r", "=">>
        \o DOWNLOAD_DIR \o <<"\n">>

\* the file after the call, and the kind of message the call returns; pkill
\* -HUP irssi signals another process and leaves the file as it is
add_autodl_filter(config, show_name, filter_type) ==
    IF filter_exists(config, show_name, filter_type)
    THEN [cfg |-> config, result |-> "already exists"]
    ELSE IF ~config.writable
    THEN [cfg |-> config, result |-> "Failed"]
    ELSE LET filter_id == FilterId(show_name)
             new_filter == IF filter_type = "tv" THEN TvFilter(filter_id, show_name)
                           ELSE MovieFilter(filter_id, show_name)
         IN  [cfg |-> [exists |-> TRUE, writable |-> TRUE,
                       content |-> config.content \o new_filter \o <<"\n">>],
              result |-> "Added"]

\* show names and titles
show_Dune == <<"D", "u", "n", "e">>
show_dune == <<"d", "u", "n", "e">>
show_The_Office == <<"T", "h", "e", " ", "O", "f", "f", "i", "c", "e">>
show_Top_Gear == <<"T", "o", "p", " ", "G", "e", "a", "r">>
show_two_lines == <<"x", "\n", "[", "f", "i", "l", "t", "e", "r", " ", "d", "u", "n", "e", "]">>
ShowNames == {show_Dune, show_dune, show_The_Office, show_Top_Gear, show_two_lines}
FilterTypes == {"tv", "movie"}

\* the file before the first call: absent, or with one section written by hand
HandWritten == <<"[", "f", "i", "l", "t", "e", "r", " ", "t", "h", "e", "o", "f", "f", "i", "c", "e", "]", "\n", "e", "n", "a", "b", "l", "e", "d", "=", "1", "\n", "s", "h", "o", "w", "s", "=", "T", "h", "e", " ", "O", "f", "f", "i", "c", "e", "\n">>
InitialConfigs ==
    {[exists |-> FALSE, writable |-> w, content |-> <<>>] : w \in BOOLEAN}
        \cup {[exists |-> TRUE, writable |-> w, content |-> HandWritten] : w \in BOOLEAN}

\* the scanner is not part of the bot
ScannerIdle ==
    /\ fs = MissingRoot
    /\ Start
    /\ run = 1
    /\ prev = NoRun

AddAutodlFilter ==
    \E show_name \in ShowNames, filter_type \in FilterTypes :
        LET r == add_autodl_filter(cfg, show_name, filter_type)
        IN  /\ cfg' = r.cfg
            /\ call' = [show_name |-> show_name, filter_type |-> filter_type,
                        before |-> cfg.content, result |-> r.result]
            /\ UNCHANGED <<svars, environ, ALLOWED_NUMBERS, request, ran, response, at, voice_file, voice>>

AutodlInit ==
    /\ ScannerIdle
    /\ cfg \in InitialConfigs
    /\ call = NoCall
    /\ environ = Unset
    /\ ALLOWED_NUMBERS = <<>>
    /\ request = NoRequest
    /\ ran = <<>>
    /\ response = ""
    /\ at = "idle"
    /\ voice_file = NoFile
    /\ voice = <<>>

AutodlNext == AddAutodlFilter

AutodlSpec == AutodlInit /\ [][AutodlNext]_vars

\* how many sections of the text carry the id
SectionCount(text, filter_id) ==
    Cardinality({p \in 1..Len(text) : SectionAt(text, p, filter_id)})

(* C17: after any sequence of calls of add_autodl_filter, for tv or movie   *)
(* and with any show names, on a file that had no section twice, the file  *)
(* holds at most one "[filter <id>]" section for each id; and a call whose *)
(* id was in the file leaves the file as it was and returns the message    *)
(* "already exists".                                                       *)
C17_OneSectionPerFilterId ==
    /\ \A show_name \in ShowNames : SectionCount(cfg.content, FilterId(show_name)) <= 1
    /\ (call # NoCall /\ SectionCount(call.before, FilterId(call.show_name)) >= 1)
          => (cfg.content = call.before /\ call.result = "already exists")

--------------------------------------------------------------------------
(* commander.py: the webhook. *)

\* os.getenv(name, default)
Getenv(env, default) == IF env.set THEN env.value ELSE default

\* str.split(sep): the parts between the separators; the text itself, as the
\* only part, when it holds no separator
RECURSIVE Split(_, _)
Split(s, sep) ==
    IF \E i \in DOMAIN s : s[i] = sep
    THEN LET i == Min({j \in DOMAIN s : s[j] = sep})
         IN  <<SubSeq(s, 1, i - 1)>> \o Split(SubSeq(s, i + 1, Len(s)), sep)
    ELSE <<s>>

\* the two numbers of the fallback list
number_1 == <<"w", "h", "a", "t", "s", "a", "p", "p", ":", "+", "4", "4", "1", "1", "7", "4", "6", "3", "2", "5", "4", "6">>
number_2 == <<"w", "h", "a", "t", "s", "a", "p", "p", ":", "+", "4", "4", "7", "3", "7", "5", "2", "7", "2", "6", "9", "4">>
FallbackNumbers == <<number_1, number_2>>

\* ALLOWED_NUMBERS as the module computes it at import; `not ALLOWED_NUMBERS`
\* is true of the empty list only
AllowedNumbers(env) ==
    LET numbers == Split(Getenv(env, <<>>), ",")
    IN  IF numbers = <<>> THEN FallbackNumbers ELSE numbers

\* x in list
InList(x, list) == \E i \in DOMAIN list : list[i] = x

\* validate_twilio_request: abort(403) when the signature is invalid and the
\* number is not in the list
Aborted(req, allowed) == ~req.signed /\ ~InList(req.From, allowed)

\* media_url and 'audio' in media_type.lower()
word_audio == <<"a", "u", "d", "i", "o">>
VoiceNote(req) == req.MediaUrl0 /\ Contains(LowerStr(req.MediaContentType0), word_audio)

\* the words of the commands
word_uptime == <<"u", "p", "t", "i", "m", "e">>
word_fleet == <<"f", "l", "e", "e", "t">>
word_dashboard == <<"d", "a", "s", "h", "b", "o", "a", "r", "d">>
word_stats == <<"s", "t", "a", "t", "s">>
word_update == <<"u", "p", "d", "a", "t", "e">>
word_pingall == <<"p", "i", "n", "g", "a", "l", "l">>
word_top == <<"t", "o", "p">>
word_seeds == <<"s", "e", "e", "d", "s">>
word_recent == <<"r", "e", "c", "e", "n", "t">>
word_addtv == <<"a", "d", "d", "t", "v", " ">>
word_addmovie == <<"a", "d", "d", "m", "o", "v", "i", "e", " ">>
word_ACTION == <<"A", "C", "T", "I", "O", "N", ":">>

\* a call made for a request
Ran(fn) == [fn |-> fn, show_name |-> <<>>, filter_type |-> ""]
RanAdd(show_name, filter_type) ==
    [fn |-> "add_autodl_filter", show_name |-> show_name, filter_type |-> filter_type]

\* what a branch of the handler does: the calls it makes, the reply, the file
Does(calls, reply, config) == [ran |-> calls, response |-> reply, cfg |-> config]
Handler(fn, config) == Does(<<Ran(fn)>>, fn, config)
AddFilter(show_name, filter_type, config) ==
    LET r == add_autodl_filter(config, show_name, filter_type)
    IN  Does(<<RanAdd(show_name, filter_type)>>, r.result, r.cfg)
Nothing(config) == Does(<<>>, "", config)

\* action_part = ollama_reply.split("ACTION:", 1)[1].strip().lower()
ActionPart(ollama_reply) ==
    LowerStr(Strip(SubSeq(ollama_reply, Len(word_ACTION) + 1, Len(ollama_reply))))

\* the if/elif chain on action_part; no call stands for executed = False
Execute(action_part, config) ==
    IF Contains(action_part, word_uptime) THEN Handler("handle_uptime_command", config)
    ELSE IF \E x \in {word_fleet, word_dashboard, word_stats} : Contains(action_part, x)
    THEN Handler("handle_fleet_command", config)
    ELSE IF Contains(action_part, word_update) THEN Handler("handle_update_command", config)
    ELSE IF Contains(action_part, word_pingall) THEN Handler("handle_pingall_command", config)
    ELSE IF Contains(action_part, word_top) THEN Handler("handle_top_command", config)
    ELSE IF StartsWith(action_part, word_addtv)
    THEN LET show == Strip(SubSeq(action_part, 7, Len(action_part)))
         IN  IF show # <<>> THEN AddFilter(show, "tv", config) ELSE Nothing(config)
    ELSE IF StartsWith(action_part, word_addmovie)
    THEN LET movie == Strip(SubSeq(action_part, 10, Len(action_part)))
         IN  IF movie # <<>> THEN AddFilter(movie, "movie", config) ELSE Nothing(config)
    ELSE IF Contains(action_part, word_seeds) THEN Handler("get_torrent_status", config)
    ELSE IF Contains(action_part, word_recent) THEN Handler("get_recent_media", config)
    ELSE Nothing(config)

\* the exact matching of the message, when Ollama did not handle it
Fallback(incoming_msg, ollama_reply, config) ==
    LET incoming_lower == LowerStr(incoming_msg)
    IN  IF incoming_lower \in {word_fleet, word_stats, word_dashboard}
        THEN Handler("handle_fleet_command", config)
        ELSE IF incoming_lower = word_update THEN Handler("handle_update_command", config)
        ELSE IF incoming_lower = word_pingall THEN Handler("handle_pingall_command", config)
        ELSE IF incoming_lower = word_top THEN Handler("handle_top_command", config)
        ELSE IF incoming_lower = word_uptime THEN Handler("handle_uptime_command", config)
        ELSE IF StartsWith(incoming_lower, word_addtv)
        THEN LET show == Strip(SubSeq(incoming_msg, 7, Len(incoming_msg)))
             IN  IF show # <<>> THEN AddFilter(show, "tv", config)
                 ELSE Does(<<>>, "Usage: addtv Show Name", config)
        ELSE IF StartsWith(incoming_lower, word_addmovie)
        THEN LET movie == Strip(SubSeq(incoming_msg, 10, Len(incoming_msg)))
             IN  IF movie # <<>> THEN AddFilter(movie, "movie", config)
                 ELSE Does(<<>>, "Usage: addmovie Movie Name", config)
        ELSE IF incoming_lower = word_seeds THEN Handler("get_torrent_status", config)
        ELSE IF incoming_lower = word_recent THEN Handler("get_recent_media", config)
        ELSE IF ollama_reply # <<>> THEN Does(<<>>, "ollama_reply", config)
        ELSE Does(<<>>, "get_help_text", config)

\* incoming_msg once the voice block is over: the text of the request, or
\* what Whisper heard, or nothing when the download failed
IncomingMsg(req) ==
    IF ~VoiceNote(req) THEN Strip(req.Body)
    ELSE IF req.status_code = 200 THEN Strip(req.transcript)
    ELSE <<>>

\* senders: no From at all, the first number of the fallback list, a stranger
number_stranger == <<"w", "h", "a", "t", "s", "a", "p", "p", ":", "+", "1", "5", "5", "5", "0", "1", "0", "0">>
Froms == {<<>>, number_1, number_stranger}

\* ALLOWED_WHATSAPP_NUMBERS: not set, set to the empty text, set to two numbers
Environs ==
    {Unset, [set |-> TRUE, value |-> <<>>],
     [set |-> TRUE, value |-> number_1 \o <<",">> \o number_2]}

body_addtv_Dune == <<"a", "d", "d", "t", "v", " ", "D", "u", "n", "e">>
Bodies == {<<>>, word_uptime, body_addtv_Dune}

\* the media of a request: none, a picture, a voice note
type_ogg == <<"a", "u", "d", "i", "o", "/", "o", "g", "g">>
type_jpeg == <<"i", "m", "a", "g", "e", "/", "j", "p", "e", "g">>
MediaInputs ==
    {[MediaUrl0 |-> FALSE, MediaContentType0 |-> <<>>],
     [MediaUrl0 |-> TRUE, MediaContentType0 |-> type_jpeg],
     [MediaUrl0 |-> TRUE, MediaContentType0 |-> type_ogg]}

\* the status of the download and what Whisper hears in the file
StatusCodes == {200, 404}
Transcripts == {<<>>, word_top}

\* what Ollama answers; the empty text when the call fails
reply_addtv_Top_Gear == <<"A", "C", "T", "I", "O", "N", ":", " ", "a", "d", "d", "t", "v", " ", "T", "o", "p", " ", "G", "e", "a", "r">>
reply_addtv_The_Office == <<"A", "C", "T", "I", "O", "N", ":", " ", "a", "d", "d", "t", "v", " ", "T", "h", "e", " ", "O", "f", "f", "i", "c", "e">>
reply_addmovie_Dune == <<"A", "C", "T", "I", "O", "N", ":", " ", "a", "d", "d", "m", "o", "v", "i", "e", " ", "D", "u", "n", "e">>
reply_uptime == <<"A", "C", "T", "I", "O", "N", ":", " ", "u", "p", "t", "i", "m", "e">>
reply_addtv == <<"A", "C", "T", "I", "O", "N", ":", " ", "a", "d", "d", "t", "v">>
reply_chat == <<"H", "e", "y", "!", " ", "W", "h", "a", "t", " ", "d", "o", " ", "y", "o", "u", " ", "n", "e", "e", "d", "?">>
OllamaReplies ==
    {<<>>, reply_addtv_Top_Gear, reply_addtv_The_Office, reply_addmovie_Dune,
     reply_uptime, reply_addtv, reply_chat}

\* a POST to /webhook arrives: the signature check of the decorator, then the
\* handler up to the voice block
Receive ==
    /\ at = "idle"
    /\ \E from \in Froms, text \in Bodies, signed \in BOOLEAN, m \in MediaInputs :
           LET req == [From |-> from, Body |-> text, signed |-> signed,
                       MediaUrl0 |-> m.MediaUrl0,
                       MediaContentType0 |-> m.MediaContentType0,
                       status_code |-> 0, transcript |-> <<>>, ollama_reply |-> <<>>]
           IN  /\ request' = req
               /\ ran' = <<>>
               /\ IF Aborted(req, ALLOWED_NUMBERS)
                  THEN response' = "403" /\ at' = "idle"
                  ELSE IF ~InList(req.From, ALLOWED_NUMBERS)
                  THEN response' = "Unauthorized number." /\ at' = "idle"
                  ELSE /\ response' = ""
                       /\ at' = IF VoiceNote(req) THEN "voice" ELSE "reply"
    /\ UNCHANGED <<svars, cfg, call, environ, ALLOWED_NUMBERS, voice_file, voice>>

\* the voice block of a request that is handled alone: the download, and on
\* status 200 the file is written, transcribed and removed
Voice ==
    /\ at = "voice"
    /\ \E status \in StatusCodes, heard \in Transcripts :
           /\ request' = [request EXCEPT !.status_code = status,
                             !.transcript = IF status = 200 THEN heard ELSE <<>>]
           /\ ran' = ran \o <<Ran("requests.get")>>
                         \o (IF status = 200 THEN <<Ran("transcribe")>> ELSE <<>>)
    /\ at' = "reply"
    /\ UNCHANGED <<svars, cfg, call, environ, ALLOWED_NUMBERS, response, voice_file, voice>>

\* incoming_msg is empty: the reply says so
NotUnderstood ==
    /\ at = "reply"
    /\ IncomingMsg(request) = <<>>
    /\ response' = "Couldn't understand the message or voice note."
    /\ at' = "idle"
    /\ UNCHANGED <<svars, cfg, call, environ, ALLOWED_NUMBERS, request, ran, voice_file, voice>>

\* Ollama is asked, its ACTION is executed or the message is matched exactly
Command ==
    /\ at = "reply"
    /\ IncomingMsg(request) # <<>>
    /\ \E reply \in OllamaReplies :
           LET ollama_reply == Strip(reply)
               action == IF StartsWith(ollama_reply, word_ACTION)
                         THEN Execute(ActionPart(ollama_reply), cfg)
                         ELSE Nothing(cfg)
               r == IF action.ran # <<>> THEN action
                    ELSE Fallback(IncomingMsg(request), ollama_reply, cfg)
               added == SelectSeq(r.ran, LAMBDA c : c.fn = "add_autodl_filter")
           IN  /\ request' = [request EXCEPT !.ollama_reply = reply]
               /\ ran' = ran \o <<Ran("parse_with_ollama")>> \o r.ran
               /\ response' = r.response
               /\ cfg' = r.cfg
               /\ call' = IF added = <<>> THEN call
                          ELSE [show_name |-> added[1].show_name,
                                filter_type |-> added[1].filter_type,
                                before |-> cfg.content, result |-> r.response]
    /\ at' = "idle"
    /\ UNCHANGED <<svars, environ, ALLOWED_NUMBERS, voice_file, voice>>

\* the module is imported with the environment it finds
WebhookInit ==
    /\ ScannerIdle
    /\ environ \in Environs
    /\ ALLOWED_NUMBERS = AllowedNumbers(environ)
    /\ cfg = NoConfig
    /\ call = NoCall
    /\ request = NoRequest
    /\ ran = <<>>
    /\ response = ""
    /\ at = "idle"
    /\ voice_file = NoFile
    /\ voice = <<>>

WebhookNext == Receive \/ Voice \/ NotUnderstood \/ Command

WebhookSpec == WebhookInit /\ [][WebhookNext]_vars

\* the command handlers, and those among the calls made for the request
CommandHandlers ==
    {"handle_uptime_command", "handle_fleet_command", "handle_update_command",
     "handle_pingall_command", "handle_top_command", "add_autodl_filter",
     "get_torrent_status", "get_recent_media"}
HandlersRun == SelectSeq(ran, LAMBDA c : c.fn \in CommandHandlers)

(* C18: nothing runs (no command handler, no call of Ollama, no download   *)
(* of a voice note) for a request whose From is not an allowed number;     *)
(* when ALLOWED_WHATSAPP_NUMBERS is unset or empty the allowed numbers are *)
(* the two fallback numbers, so a request without From or with an empty    *)
(* From is refused ("Unauthorized number.", or 403 when its signature is   *)
(* invalid as well) and nothing runs for it.                               *)
C18_UnlistedSenderRunsNothing ==
    request # NoRequest =>
        /\ ~InList(request.From, ALLOWED_NUMBERS) => ran = <<>>
        /\ (~environ.set \/ environ.value = <<>>) =>
              /\ ALLOWED_NUMBERS = FallbackNumbers
              /\ request.From = <<>> =>
                    (response \in {"Unauthorized number.", "403"} /\ ran = <<>>)

\* the name that follows the command word in Ollama's reply
NameAfter(reply, n) == Strip(SubSeq(reply, n + 1, Len(reply)))

\* Ollama was asked and its reply opens with the command word and a name
Asked(command) ==
    /\ \E i \in DOMAIN ran : ran[i].fn = "parse_with_ollama"
    /\ StartsWith(request.ollama_reply, command)
    /\ NameAfter(request.ollama_reply, Len(command)) # <<>>

action_addtv == <<"A", "C", "T", "I", "O", "N", ":", " ", "a", "d", "d", "t", "v", " ">>
action_addmovie == <<"A", "C", "T", "I", "O", "N", ":", " ", "a", "d", "d", "m", "o", "v", "i", "e", " ">>

\* the only handler run is add_autodl_filter, for the name of the reply (in
\* any letter case) and the filter type
OnlyAdds(command, filter_type) ==
    /\ Len(HandlersRun) = 1
    /\ HandlersRun[1].fn = "add_autodl_filter"
    /\ LowerStr(HandlersRun[1].show_name)
           = LowerStr(NameAfter(request.ollama_reply, Len(command)))
    /\ HandlersRun[1].filter_type = filter_type

(* C19: when Ollama's reply starts with "ACTION: addtv <show>" (or with    *)
(* "ACTION: addmovie <title>") and the name is not empty, the bot runs     *)
(* add_autodl_filter for that name with type tv (or movie) and no other    *)
(* command handler, whatever the name is; and no request runs more than    *)
(* one command handler.                                                    *)
C19_AddCommandRunsAddFilter ==
    /\ Asked(action_addtv) => OnlyAdds(action_addtv, "tv")
    /\ Asked(action_addmovie) => OnlyAdds(action_addmovie, "movie")
    /\ Len(HandlersRun) <= 1

--------------------------------------------------------------------------
(* commander.py: the voice block of whatsapp_bot under concurrent          *)
(* requests.  Flask serves each request on a thread of its own; every      *)
(* request writes, reads and removes the one file /tmp/whatsapp_voice.ogg. *)

\* requests with a voice note that are handled at the same time
VoiceRequests == 3
Voices == 1..VoiceRequests

\* the audio of request r is r: no two requests carry the same bytes
Audio(r) == r

\* heard: nothing yet
NotHeard == 0
\* heard: model.transcribe raised, the file was not there
NoAudio == -1

\* r = requests.get(media_url, ...)
VoiceGet(r) ==
    /\ voice[r].pc = "get"
    /\ \E status \in StatusCodes :
           voice' = [voice EXCEPT ![r].pc = IF status = 200 THEN "write" ELSE "done"]
    /\ UNCHANGED <<svars, cfg, call, environ, ALLOWED_NUMBERS, request, ran, response, at, voice_file>>

\* with open(audio_path, 'wb') as f: f.write(r.content)
VoiceWrite(r) ==
    /\ voice[r].pc = "write"
    /\ voice_file' = Audio(r)
    /\ voice' = [q \in Voices |->
                    IF q = r THEN [voice[q] EXCEPT !.pc = "transcribe"]
                    ELSE IF voice[q].pc = "transcribe" THEN [voice[q] EXCEPT !.lost = TRUE]
                    ELSE voice[q]]
    /\ UNCHANGED <<svars, cfg, call, environ, ALLOWED_NUMBERS, request, ran, response, at>>

\* segments, _ = model.transcribe(audio_path, beam_size=5): reads the file
\* that is at the path now, raises when there is none
VoiceTranscribe(r) ==
    /\ voice[r].pc = "transcribe"
    /\ voice' = [voice EXCEPT ![r].pc = "finally",
                              ![r].heard = IF voice_file = NoFile THEN NoAudio ELSE voice_file]
    /\ UNCHANGED <<svars, cfg, call, environ, ALLOWED_NUMBERS, request, ran, response, at, voice_file>>

\* finally: if audio_path and os.path.exists(audio_path): os.remove(audio_path)
VoiceFinally(r) ==
    /\ voice[r].pc = "finally"
    /\ voice_file' = NoFile
    /\ voice' = [q \in Voices |->
                    IF q = r THEN [voice[q] EXCEPT !.pc = "done"]
                    ELSE IF voice[q].pc = "transcribe" /\ voice_file # NoFile
                    THEN [voice[q] EXCEPT !.lost = TRUE]
                    ELSE voice[q]]
    /\ UNCHANGED <<svars, cfg, call, environ, ALLOWED_NUMBERS, request, ran, response, at>>

VoiceInit ==
    /\ ScannerIdle
    /\ cfg = NoConfig
    /\ call = NoCall
    /\ environ = Unset
    /\ ALLOWED_NUMBERS = <<>>
    /\ request = NoRequest
    /\ ran = <<>>
    /\ response = ""
    /\ at = "idle"
    /\ voice_file = NoFile
    /\ voice = [r \in Voices |-> [pc |-> "get", heard |-> NotHeard, lost |-> FALSE]]

VoiceNext ==
    \E r \in Voices :
        \/ VoiceGet(r)
        \/ VoiceWrite(r)
        \/ VoiceTranscribe(r)
        \/ VoiceFinally(r)

VoiceSpec == VoiceInit /\ [][VoiceNext]_vars

(* C20: in every interleaving of concurrent requests with a voice note,    *)
(* each request transcribes the audio it downloaded itself, no request     *)
(* overwrites or removes the file of another request before that request   *)
(* has transcribed it, and when all requests are over the file             *)
(* /tmp/whatsapp_voice.ogg is gone.                                        *)
C20_VoiceNotesIsolated ==
    /\ \A r \in DOMAIN voice :
           /\ voice[r].heard \in {NotHeard, Audio(r)}
           /\ ~voice[r].lost
    /\ (\A r \in DOMAIN voice : voice[r].pc = "done") => voice_file = NoFile

====
